---- MODULE Spec2Model ----
(***************************************************************************)
(* A model of fubade-ics.py: the row classifier and game assembler         *)
(* (parse_games), the pagination fetcher (fetch_games), the team-name      *)
(* resolver (fetch_teamname), the calendar writer (write_ical) and main.   *)
(*                                                                         *)
(* Texts are sequences of one-character strings.  A dict of the program    *)
(* is a record whose every field is a sequence of length 0 (key absent) or *)
(* 1 (key present, holding the value).                                     *)
(***************************************************************************)
EXTENDS Integers, Sequences, FiniteSets, TLC

VARIABLES
    rows,        \* parse_games: the rows of the page consumed so far
    pst,         \* parse_games: games, current_game, skip_game
    ppc,         \* parse_games: "idle", "loop", "returned" or "raised"
    pc,          \* main: "idle", "args", "teamname", "fetch", "write", "done", "aborted"
    team_name,   \* main: <<>> or <<the title text>>
    offset,      \* fetch_games: params["offset"]
    done,        \* fetch_games: done
    games,       \* fetch_games: games, and main's games once it has returned
    requests,    \* the offsets of the page requests sent so far
    responses,   \* the responses received to them
    out,         \* the output destination: opened (truncated), and what fp.write wrote
    writer_calls \* how many times write_ical was invoked

pvars == <<rows, pst, ppc>>
mvars == <<pc, team_name, offset, done, games, requests, responses, out, writer_calls>>
vars == <<rows, pst, ppc, pc, team_name, offset, done, games, requests, responses,
          out, writer_calls>>

(***************************************************************************)
(* Bounds of the model.                                                    *)
(***************************************************************************)
MaxRows == 4
MaxPages == 3
MaxGames == 3
MaxTextLen == 2

(***************************************************************************)
(* Text helpers.                                                           *)
(***************************************************************************)
Digit == <<"0", "1", "2", "3", "4", "5", "6", "7", "8", "9">>

Chr(n) == Digit[n + 1]

IdText(id) == <<Chr((id \div 10) % 10), Chr(id % 10)>>

IsSpace(c) == c = " "

RECURSIVE LStrip(_)
LStrip(s) ==
    IF s = <<>> THEN <<>>
    ELSE IF IsSpace(Head(s)) THEN LStrip(Tail(s)) ELSE s

RECURSIVE RStrip(_)
RStrip(s) ==
    IF s = <<>> THEN <<>>
    ELSE IF IsSpace(s[Len(s)]) THEN RStrip(SubSeq(s, 1, Len(s) - 1)) ELSE s

\* str.strip()
Strip(s) == RStrip(LStrip(s))

(***************************************************************************)
(* Calendar helpers (datetime.strptime validates against these).           *)
(***************************************************************************)
IsLeap(y) == (y % 4 = 0) /\ ((y % 100 # 0) \/ (y % 400 = 0))

DaysInMonth(y, m) ==
    IF m = 2 THEN (IF IsLeap(y) THEN 29 ELSE 28)
    ELSE IF m \in {4, 6, 9, 11} THEN 30 ELSE 31

(***************************************************************************)
(* Rows.  A row is what bs4 hands to parse_games for one <tr>:             *)
(*   classes  the class list of the row                                    *)
(*   text     the stripped text of the row, as far as the headline pattern *)
(*            reads it: date is <<>> when the text holds no                *)
(*            ", NN?NN?NNNN - NN:NN Uhr | " part and <<d>> when it does,   *)
(*            d giving the digits and the two separator characters; comp   *)
(*            is the text after the " | "                                  *)
(*   clubs    the texts of td.column-club>a.club-wrapper>div.club-name     *)
(*   links    the hrefs of td.column-detail>a                              *)
(*   cells    the texts of td[colspan="3"]                                 *)
(***************************************************************************)
NoText == [date |-> <<>>, comp |-> <<>>]

DateText(dd, s1, mm, s2, yyyy, hh, mi) ==
    [DD |-> dd, s1 |-> s1, MM |-> mm, s2 |-> s2, YYYY |-> yyyy, HH |-> hh, MI |-> mi]

MkRow(classes, text, clubs, links, cells) ==
    [classes |-> classes, text |-> text, clubs |-> clubs, links |-> links,
     cells |-> cells]

InClasses(c, classes) == \E k \in 1..Len(classes) : classes[k] = c

(***************************************************************************)
(* parse_games.                                                            *)
(***************************************************************************)
EmptyGame ==
    [datetime |-> <<>>, competition |-> <<>>, team1 |-> <<>>, team2 |-> <<>>,
     venue |-> <<>>, details |-> <<>>]

\* the truth value of a dict: it has at least one key
NonEmptyGame(g) ==
    \/ g.datetime # <<>> \/ g.competition # <<>> \/ g.team1 # <<>>
    \/ g.team2 # <<>> \/ g.venue # <<>> \/ g.details # <<>>

\* games = [], current_game = {}, skip_game = False.  shared tells whether
\* current_game is the very dict that is the last element of games (appended
\* and not rebound since); raised, whether an exception has left the function.
ParseInit ==
    [games |-> <<>>, current_game |-> EmptyGame, skip_game |-> FALSE,
     raised |-> FALSE, shared |-> FALSE]

\* an assignment current_game[...] = ...: it changes the dict current_game
\* names, which the last element of games names too while they are shared
StoreGame(st, g) ==
    [st EXCEPT !.current_game = g,
               !.games = IF st.shared THEN [@ EXCEPT ![Len(@)] = g] ELSE @]

\* re.search(r", (\d{2}.\d{2}.\d{4} - \d{2}:\d{2} Uhr) \| (.+)", headline)
ReSearch(text) == Len(text.date) = 1 /\ Len(text.comp) >= 1

\* datetime.strptime(m.group(1), "%d.%m.%Y - %H:%M Uhr") succeeds
StrptimeOk(d) ==
    /\ d.s1 = "." /\ d.s2 = "."
    /\ d.YYYY \in 1..9999
    /\ d.MM \in 1..12
    /\ d.DD \in 1..DaysInMonth(d.YYYY, d.MM)
    /\ d.HH \in 0..23
    /\ d.MI \in 0..59

\* the datetime it returns
Strptime(d) ==
    [year |-> d.YYYY, month |-> d.MM, day |-> d.DD, hour |-> d.HH,
     minute |-> d.MI, second |-> 0]

SkipsRowNever(st, row) == FALSE

\* if not "row-headline" in classes and skip_game: continue
SkipsRow(st, row) == ~InClasses("row-headline", row.classes) /\ st.skip_game

\* the same with current_game.clear() in place of current_game = {}
FinalizeClearing(st) ==
    IF NonEmptyGame(st.current_game)
    THEN [st EXCEPT !.games = IF ~st.skip_game THEN Append(@, EmptyGame) ELSE @,
                    !.current_game = EmptyGame,
                    !.skip_game = FALSE,
                    !.shared = ~st.skip_game]
    ELSE st

\* if current_game: (append unless skip_game; current_game = {}; skip_game = False)
\* current_game = {} binds a new dict, so nothing is shared afterwards
FinalizeOnHeadline(st) ==
    IF NonEmptyGame(st.current_game)
    THEN [st EXCEPT !.games = IF ~st.skip_game
                              THEN Append(@, st.current_game) ELSE @,
                    !.current_game = EmptyGame,
                    !.skip_game = FALSE,
                    !.shared = FALSE]
    ELSE st

\* the "row-headline" branch
HeadlineRow(st, row) ==
    LET st1 == FinalizeOnHeadline(st) IN
    IF ~ReSearch(row.text) THEN [st1 EXCEPT !.skip_game = TRUE]
    ELSE IF ~StrptimeOk(row.text.date[1]) THEN [st1 EXCEPT !.raised = TRUE]
    ELSE StoreGame(st1,
             [st1.current_game EXCEPT !.datetime = <<Strptime(row.text.date[1])>>,
                                      !.competition = <<Strip(row.text.comp)>>])

\* the classes == [] or classes == ["odd"] branch
DetailRow(st, row) ==
    IF Len(row.clubs) < 2 THEN [st EXCEPT !.raised = TRUE]
    ELSE StoreGame(st,
             [st.current_game EXCEPT !.team1 = <<Strip(row.clubs[1])>>,
                                     !.team2 = <<Strip(row.clubs[2])>>,
                                     !.details = IF row.links # <<>>
                                                 THEN <<row.links[1]>> ELSE @])

\* the "row-venue" branch
VenueRow(st, row) ==
    IF Len(row.cells) < 1 THEN [st EXCEPT !.raised = TRUE]
    ELSE StoreGame(st, [st.current_game EXCEPT !.venue = <<Strip(row.cells[1])>>])

\* one iteration of "for row in rows"
ParseRow(st, row) ==
    IF SkipsRow(st, row) THEN st
    ELSE IF InClasses("row-headline", row.classes) THEN HeadlineRow(st, row)
    ELSE IF row.classes = <<>> \/ row.classes = <<"odd">> THEN DetailRow(st, row)
    ELSE IF InClasses("row-venue", row.classes) THEN VenueRow(st, row)
    ELSE st

\* after the loop: if current_game: games.append(current_game)
ParseEnd(st) ==
    IF NonEmptyGame(st.current_game)
    THEN [st EXCEPT !.games = Append(@, st.current_game), !.shared = TRUE]
    ELSE st

RECURSIVE ParseRows(_, _)
ParseRows(st, rs) ==
    IF rs = <<>> \/ st.raised THEN st
    ELSE ParseRows(ParseRow(st, Head(rs)), Tail(rs))

\* parse_games(content): the state at the return, or raised
ParseGames(rs) ==
    LET st == ParseRows(ParseInit, rs) IN
    IF st.raised THEN st ELSE ParseEnd(st)

(***************************************************************************)
(* datetime arithmetic and formatting, as write_ical uses them.            *)
(***************************************************************************)
GAMES_PER_PAGE == 200

\* the two terms of timedelta(minutes=90 + 15)
PlayMinutes == 90
BufferMinutes == 15

GameMinutesNoBuffer == PlayMinutes

\* timedelta(minutes=90 + 15)
GameMinutes == PlayMinutes + BufferMinutes

\* datetime.max is 9999-12-31: date.toordinal() of it
MaxOrdinal == 3652059

DaysBeforeYear(y) ==
    (y - 1) * 365 + ((y - 1) \div 4) - ((y - 1) \div 100) + ((y - 1) \div 400)

RECURSIVE DaysBeforeMonth(_, _)
DaysBeforeMonth(y, m) ==
    IF m = 1 THEN 0 ELSE DaysBeforeMonth(y, m - 1) + DaysInMonth(y, m - 1)

\* date.toordinal()
ToOrdinal(y, m, d) == DaysBeforeYear(y) + DaysBeforeMonth(y, m) + d

\* date.fromordinal(n): the date whose ordinal is n
FromOrdinal(n) ==
    LET y == CHOOSE yy \in (n \div 366)..((n \div 365) + 1) :
                 DaysBeforeYear(yy) < n /\ n <= DaysBeforeYear(yy + 1)
        r == n - DaysBeforeYear(y)
        m == CHOOSE mm \in 1..12 :
                 DaysBeforeMonth(y, mm) < r
                 /\ r <= DaysBeforeMonth(y, mm) + DaysInMonth(y, mm)
    IN [year |-> y, month |-> m, day |-> r - DaysBeforeMonth(y, m)]

\* the day number and the minute of the day of dt + timedelta(minutes=mins)
PlusOrdinal(dt, mins) ==
    ToOrdinal(dt.year, dt.month, dt.day) + ((dt.hour * 60 + dt.minute + mins) \div 1440)

\* datetime.__add__ raises OverflowError past datetime.max
PlusOverflows(dt, mins) == PlusOrdinal(dt, mins) > MaxOrdinal

\* dt + timedelta(minutes=mins)
PlusMinutes(dt, mins) ==
    LET date == FromOrdinal(PlusOrdinal(dt, mins))
        rest == (dt.hour * 60 + dt.minute + mins) % 1440
    IN [year |-> date.year, month |-> date.month, day |-> date.day,
        hour |-> rest \div 60, minute |-> rest % 60, second |-> dt.second]

\* a zero-padded decimal number of n digits
RECURSIVE Pad(_, _)
Pad(v, n) == IF n = 0 THEN <<>> ELSE Pad(v \div 10, n - 1) \o <<Chr(v % 10)>>

\* dt.strftime("%Y%m%dT%H%M%S")
Strftime(dt) ==
    Pad(dt.year, 4) \o Pad(dt.month, 2) \o Pad(dt.day, 2) \o <<"T">>
    \o Pad(dt.hour, 2) \o Pad(dt.minute, 2) \o Pad(dt.second, 2)

(***************************************************************************)
(* write_ical.  The calendar text is the sequence of its lines; a line is  *)
(* its fixed leading text (one element) followed by its characters.        *)
(***************************************************************************)
ReplaceNothing(s) == s

\* s.replace(",", "\\,")
RECURSIVE ReplaceComma(_)
ReplaceComma(s) ==
    IF s = <<>> THEN <<>>
    ELSE (IF Head(s) = "," THEN <<"\\", ",">> ELSE <<Head(s)>>)
         \o ReplaceComma(Tail(s))

\* the lookups of one loop iteration raise KeyError on an absent key
EventRaises(game) ==
    \/ game.team1 = <<>> \/ game.team2 = <<>> \/ game.competition = <<>>
    \/ game.datetime = <<>>
    \/ PlusOverflows(game.datetime[1], GameMinutes)

\* summary = f"{game['team1']} - {game['team2']}"
Summary(game) == game.team1[1] \o <<" ", "-", " ">> \o game.team2[1]

\* location = game["venue"].replace(",", "\\,") if "venue" in game else ""
Location(game) == IF game.venue # <<>> THEN ReplaceComma(game.venue[1]) ELSE <<>>

\* the event block appended for one game
EventLines(game) ==
    << <<"BEGIN:VEVENT">>,
       <<"DTSTART:">> \o Strftime(game.datetime[1]),
       <<"DTEND:">> \o Strftime(PlusMinutes(game.datetime[1], GameMinutes)),
       <<"SUMMARY:">> \o Summary(game),
       <<"LOCATION:">> \o Location(game),
       <<"DESCRIPTION:">> \o ReplaceComma(game.competition[1]),
       <<"URL:">> \o (IF game.details # <<>> THEN game.details[1] ELSE <<>>),
       <<"END:VEVENT">> >>

RECURSIVE EventBlocksReversed(_)
EventBlocksReversed(gs) ==
    IF gs = <<>> \/ EventRaises(Head(gs)) THEN <<>>
    ELSE EventBlocksReversed(Tail(gs)) \o EventLines(Head(gs))

\* the blocks of "for game in games", up to the first game that raises
RECURSIVE EventBlocks(_)
EventBlocks(gs) ==
    IF gs = <<>> \/ EventRaises(Head(gs)) THEN <<>>
    ELSE EventLines(Head(gs)) \o EventBlocks(Tail(gs))

\* write_ical(team_name, games, fp): whether it raises, and the calendar it
\* has built when it reaches fp.write
WriteIcal(name, gs) ==
    [raised |-> \E k \in 1..Len(gs) : EventRaises(gs[k]),
     calendar |-> << <<"BEGIN:VCALENDAR">>,
                     <<"X-WR-CALNAME:">> \o name \o <<" ", "Spielplan">> >>
                  \o EventBlocks(gs)
                  \o << <<"END:VCALENDAR">> >>]

FpWritesPartial(res) == <<res.calendar>>

\* the fp.write calls of write_ical: one, as its last statement
FpWrites(res) == IF res.raised THEN <<>> ELSE <<res.calendar>>

(***************************************************************************)
(* The rows the model feeds to parse_games.  Every text of the row with    *)
(* identity id carries id, so that a field of a record names its row.      *)
(***************************************************************************)
Core(letter, id) == <<letter>> \o IdText(id)

Padded(letter, id) == <<" ">> \o Core(letter, id) \o <<" ">>

\* the datetime of the matching headline with identity id
DateOf(id) == DateText(12, ".", 4, ".", 2025, 15, id % 60)

HeadOk(id) ==
    MkRow(<<"row-headline">>, [date |-> <<DateOf(id)>>, comp |-> Padded("K", id)],
          <<>>, <<>>, <<>>)

\* a headline without a date (a postponed game)
HeadNoDate(id) ==
    MkRow(<<"odd", "row-headline">>, [date |-> <<>>, comp |-> Padded("K", id)],
          <<>>, <<>>, <<>>)

\* a headline the pattern matches and strptime rejects
HeadBadDate(id) ==
    MkRow(<<"row-headline">>,
          [date |-> <<DateText(12, "/", 4, "/", 2025, 15, id % 60)>>,
           comp |-> Padded("K", id)],
          <<>>, <<>>, <<>>)

DetailLink(id) ==
    MkRow(<<>>, NoText, <<Padded("A", id), Padded("B", id)>>, <<Core("u", id)>>, <<>>)

DetailNoLink(id) ==
    MkRow(<<"odd">>, NoText, <<Padded("A", id), Padded("B", id)>>, <<>>, <<>>)

DetailOneClub(id) ==
    MkRow(<<>>, NoText, <<Padded("A", id)>>, <<>>, <<>>)

VenueCell(id) ==
    MkRow(<<"odd", "row-venue">>, NoText, <<>>, <<>>, <<Padded("V", id)>>)

VenueNoCell(id) ==
    MkRow(<<"row-venue">>, NoText, <<>>, <<>>, <<>>)

OtherRow(id) ==
    MkRow(<<"row-competition">>, NoText, <<>>, <<>>, <<>>)

RowsAt(id) ==
    {HeadOk(id), HeadNoDate(id), HeadBadDate(id), DetailLink(id), DetailNoLink(id),
     DetailOneClub(id), VenueCell(id), VenueNoCell(id), OtherRow(id)}

(***************************************************************************)
(* SpecParse: parse_games run row by row over every row sequence of at     *)
(* most MaxRows rows.                                                      *)
(***************************************************************************)
NoOutput == [dest |-> "none", opened |-> FALSE, writes |-> <<>>]

\* main is not running
MainIdle ==
    /\ pc = "idle" /\ team_name = <<>> /\ offset = 0 /\ done = FALSE
    /\ games = <<>> /\ requests = <<>> /\ responses = <<>>
    /\ out = NoOutput /\ writer_calls = 0

\* no row-by-row run of parse_games
ParseIdle == rows = <<>> /\ pst = ParseInit /\ ppc = "idle"

InitParse ==
    /\ rows = <<>>
    /\ pst = ParseInit
    /\ ppc = "loop"
    /\ MainIdle

\* the loop body on the next row
ReadRow ==
    /\ ppc = "loop"
    /\ Len(rows) < MaxRows
    /\ \E row \in RowsAt(Len(rows) + 1) :
        /\ rows' = Append(rows, row)
        /\ pst' = ParseRow(pst, row)
        /\ ppc' = IF pst'.raised THEN "raised" ELSE "loop"
    /\ UNCHANGED mvars

\* the rows are exhausted: the trailing append and the return
EndOfRows ==
    /\ ppc = "loop"
    /\ pst' = ParseEnd(pst)
    /\ ppc' = "returned"
    /\ UNCHANGED <<rows, mvars>>

NextParse == ReadRow \/ EndOfRows

SpecParse == InitParse /\ [][NextParse]_vars

(***************************************************************************)
(* fetch_teamname, fetch_games and main.                                   *)
(***************************************************************************)
StatusOkUnchecked(resp) == TRUE

\* assert resp.status_code == 200
StatusOk(resp) == resp.status = 200

\* assert body != {}
BodyOk(resp) == resp.body # <<>>

NextOffsetSame(o) == o

\* params["offset"] += params["per_page"]
NextOffset(o) == o + GAMES_PER_PAGE

PlusGamesUnlessFinal(gs, body) ==
    IF body.final THEN gs ELSE gs \o ParseGames(body.html).games

\* the same with the assembler's current_game kept from one page to the next
PlusGamesCarrying(gs, body) ==
    IF gs = <<>> THEN ParseGames(body.html).games
    ELSE ParseEnd(ParseRows([ParseInit EXCEPT !.games = SubSeq(gs, 1, Len(gs) - 1),
                                              !.current_game = gs[Len(gs)]],
                            body.html)).games

\* games += parse_games(content)
PlusGames(gs, body) == gs \o ParseGames(body.html).games

\* main, from args.parse_args() to the two strptime calls: args names what
\* --from and --to hold
ParseArgs(args) ==
    /\ pc = "args"
    /\ pc' = IF args.date_from = "ok" /\ args.date_to \in {"ok", "none"}
             THEN "teamname" ELSE "aborted"
    /\ UNCHANGED <<team_name, offset, done, games, requests, responses, out,
                   writer_calls, pvars>>

\* team_name = fetch_teamname(args.team_id)
FetchTeamname(resp) ==
    /\ pc = "teamname"
    /\ IF StatusOk(resp) /\ resp.title # <<>>
       THEN team_name' = <<resp.title[1]>> /\ pc' = "fetch"
       ELSE team_name' = team_name /\ pc' = "aborted"
    /\ UNCHANGED <<offset, done, games, requests, responses, out, writer_calls,
                   pvars>>

\* one iteration of "while not done": the request, the response resp to it,
\* and the rest of the loop body
FetchPage(resp) ==
    /\ pc = "fetch"
    /\ ~done
    /\ Len(requests) < MaxPages
    /\ requests' = Append(requests, offset)
    /\ responses' = Append(responses, resp)
    /\ IF ~StatusOk(resp) \/ ~BodyOk(resp)
       THEN pc' = "aborted" /\ UNCHANGED <<offset, done, games>>
       ELSE /\ offset' = NextOffset(offset)
            /\ done' = resp.body[1].final
            /\ IF ParseGames(resp.body[1].html).raised
               THEN pc' = "aborted" /\ games' = games
               ELSE pc' = "fetch" /\ games' = PlusGames(games, resp.body[1])
    /\ UNCHANGED <<team_name, out, writer_calls, pvars>>

\* the loop ends: return games
FetchReturn ==
    /\ pc = "fetch"
    /\ done
    /\ pc' = "write"
    /\ UNCHANGED <<team_name, offset, done, games, requests, responses, out,
                   writer_calls, pvars>>

\* main, from "if args.output_file" on: dest is "file" when --output is given
\* (open(..., "w") truncates it) and "stdout" otherwise
MainWrite ==
    /\ pc = "write"
    /\ \E dest \in {"file", "stdout"} :
        LET res == WriteIcal(team_name[1], games) IN
        /\ writer_calls' = writer_calls + 1
        /\ out' = [dest |-> dest, opened |-> dest = "file", writes |-> FpWrites(res)]
        /\ pc' = IF res.raised THEN "aborted" ELSE "done"
    /\ UNCHANGED <<team_name, offset, done, games, requests, responses, pvars>>

(***************************************************************************)
(* Spec: one run of main.  The pages the server answers with are drawn     *)
(* from RunPages; page n holds the rows with identities 10 * n + 1, ...    *)
(***************************************************************************)
RunPages(n) ==
    LET b == 10 * n IN
    { <<>>,
      <<HeadOk(b + 1), DetailLink(b + 2), VenueCell(b + 3)>>,
      <<HeadOk(b + 1), DetailNoLink(b + 2), HeadOk(b + 3), DetailLink(b + 4)>>,
      <<HeadNoDate(b + 1), DetailLink(b + 2)>>,
      <<HeadOk(b + 1)>>,
      <<DetailLink(b + 1)>>,
      <<HeadOk(b + 1), DetailOneClub(b + 2)>> }

\* the responses to the n-th page request
RunResponses(n) ==
    {[status |-> 200, body |-> <<[final |-> f, html |-> p]>>] :
        f \in BOOLEAN, p \in RunPages(n)}
    \cup {[status |-> 200, body |-> <<>>]}
    \cup {[status |-> 500, body |-> <<[final |-> f, html |-> p]>>] :
              f \in BOOLEAN, p \in {<<HeadOk(10 * n + 1), DetailLink(10 * n + 2)>>}}

TitleResponses ==
    {[status |-> 200, title |-> <<<<"T", "S", "V">>>>],
     [status |-> 200, title |-> <<>>],
     [status |-> 404, title |-> <<<<"4", "0", "4">>>>]}

ArgChoices == [date_from : {"ok", "bad"}, date_to : {"ok", "bad", "none"}]

Init ==
    /\ pc = "args" /\ team_name = <<>> /\ offset = 0 /\ done = FALSE
    /\ games = <<>> /\ requests = <<>> /\ responses = <<>>
    /\ out = NoOutput /\ writer_calls = 0
    /\ ParseIdle

RunArgs == \E args \in ArgChoices : ParseArgs(args)

RunTeamname == \E resp \in TitleResponses : FetchTeamname(resp)

RunPage == \E resp \in RunResponses(Len(requests) + 1) : FetchPage(resp)

Next == RunArgs \/ RunTeamname \/ RunPage \/ FetchReturn \/ MainWrite

Spec == Init /\ [][Next]_vars

(***************************************************************************)
(* SpecIcal: write_ical applied to a team name and a list of complete game *)
(* records; the fetch that produced them is not part of this               *)
(* specification.                                                          *)
(***************************************************************************)
TextChars == {"a", ",", "\\"}

\* the texts of 1 to MaxTextLen characters
Texts == UNION {[1..n -> TextChars] : n \in 1..MaxTextLen}

TeamNames == {<<"T", "S", "V">>, <<"T", ",", "V">>}

\* the k-th game of a list, with or without a venue and a details link
PlainGame(k, withVenue, withLink) ==
    [datetime |-> <<Strptime(DateOf(k))>>,
     competition |-> <<Core("K", k)>>,
     team1 |-> <<Core("A", k)>>,
     team2 |-> <<Core("B", k)>>,
     venue |-> IF withVenue THEN <<Core("V", k)>> ELSE <<>>,
     details |-> IF withLink THEN <<Core("u", k)>> ELSE <<>>]

RECURSIVE PlainListsOf(_)
PlainListsOf(n) ==
    IF n = 0 THEN {<<>>}
    ELSE {Append(l, PlainGame(n, v, u)) :
              l \in PlainListsOf(n - 1), v \in BOOLEAN, u \in BOOLEAN}

PlainLists == UNION {PlainListsOf(n) : n \in 0..MaxGames}

\* one game whose texts hold commas and backslashes
TextGames ==
    {[datetime |-> <<Strptime(DateOf(1))>>,
      competition |-> <<c>>,
      team1 |-> <<t>>,
      team2 |-> <<<<"B">>>>,
      venue |-> v,
      details |-> u] :
        c \in Texts,
        t \in {<<"A">>, <<"A", ",", "C">>},
        v \in {<<>>, <<<<>>>>} \cup {<<x>> : x \in Texts},
        u \in {<<>>, <<<<"u", ",", "v">>>>}}

InitIcal ==
    /\ pc = "write"
    /\ team_name \in {<<t>> : t \in TeamNames}
    /\ games \in PlainLists \cup {<<g>> : g \in TextGames}
    /\ offset = 0 /\ done = TRUE /\ requests = <<>> /\ responses = <<>>
    /\ out = NoOutput /\ writer_calls = 0
    /\ ParseIdle

NextIcal == MainWrite

SpecIcal == InitIcal /\ [][NextIcal]_vars

(***************************************************************************)
(* SpecDate: one page holding one game, whose headline date is drawn from  *)
(* DateTexts, fetched, parsed and written.                                 *)
(***************************************************************************)
DateTexts ==
    {DateText(dd, s, mm, s, yyyy, hh, mi) :
        dd \in {1, 12, 28, 29, 30, 31},
        s \in {".", "/"},
        mm \in {1, 2, 4, 12, 13},
        yyyy \in {2024, 2025, 2100, 9999},
        hh \in {0, 15, 22, 23, 24},
        mi \in {0, 14, 15, 59}}

HeadDate(d) ==
    MkRow(<<"row-headline">>, [date |-> <<d>>, comp |-> Padded("K", 1)],
          <<>>, <<>>, <<>>)

DateResponses ==
    {[status |-> 200,
      body |-> <<[final |-> TRUE, html |-> <<HeadDate(d), DetailLink(2)>>]>>] :
        d \in DateTexts}

\* fetch_teamname has returned
InitDate ==
    /\ pc = "fetch"
    /\ team_name = <<<<"T", "S", "V">>>>
    /\ offset = 0 /\ done = FALSE /\ games = <<>>
    /\ requests = <<>> /\ responses = <<>>
    /\ out = NoOutput /\ writer_calls = 0
    /\ ParseIdle

DatePage == \E resp \in DateResponses : FetchPage(resp)

NextDate == DatePage \/ FetchReturn \/ MainWrite

SpecDate == InitDate /\ [][NextDate]_vars

(***************************************************************************)
(* SpecPage: one final page, drawn from the row sequences of at most       *)
(* MaxRows headline, detail and venue rows, fetched, parsed and written.   *)
(* The row at position k of the page has identity k.                       *)
(***************************************************************************)
GroupRowsAt(id) ==
    {HeadOk(id), HeadNoDate(id), DetailLink(id), DetailNoLink(id), VenueCell(id)}

RECURSIVE GroupPagesOf(_)
GroupPagesOf(n) ==
    IF n = 0 THEN {<<>>}
    ELSE {Append(p, r) : p \in GroupPagesOf(n - 1), r \in GroupRowsAt(n)}

GroupPages == UNION {GroupPagesOf(n) : n \in 0..MaxRows}

PageResponses ==
    {[status |-> 200, body |-> <<[final |-> TRUE, html |-> p]>>] : p \in GroupPages}

OnePage == \E resp \in PageResponses : FetchPage(resp)

NextPage == OnePage \/ FetchReturn \/ MainWrite

\* starts where fetch_teamname has returned
SpecPage == InitDate /\ [][NextPage]_vars

(***************************************************************************)
(* Properties of parse_games (SpecParse).                                  *)
(***************************************************************************)
IsHead(r) == InClasses("row-headline", r.classes)

\* a headline whose text the pattern matches and whose date strptime accepts
IsMatchingHead(r) == IsHead(r) /\ ReSearch(r.text) /\ StrptimeOk(r.text.date[1])

\* a headline whose text the pattern does not match
IsUnmatchedHead(r) == IsHead(r) /\ ~ReSearch(r.text)

\* a detail row holding its two club names
IsGoodDetail(r) ==
    ~IsHead(r) /\ r.classes \in {<<>>, <<"odd">>} /\ Len(r.clubs) = 2

\* a venue row holding its cell
IsGoodVenue(r) ==
    /\ ~IsHead(r) /\ r.classes \notin {<<>>, <<"odd">>}
    /\ InClasses("row-venue", r.classes) /\ Len(r.cells) >= 1

\* rs is a sequence of groups: a headline (matching or unmatched), its detail
\* row, and an optional venue row
WellGrouped(rs) ==
    /\ Len(rs) >= 1
    /\ \A i \in 1..Len(rs) :
        \/ /\ IsMatchingHead(rs[i]) \/ IsUnmatchedHead(rs[i])
           /\ i < Len(rs) /\ IsGoodDetail(rs[i + 1])
        \/ IsGoodDetail(rs[i]) /\ i > 1 /\ IsHead(rs[i - 1])
        \/ IsGoodVenue(rs[i]) /\ i > 1 /\ IsGoodDetail(rs[i - 1])

\* the record of the well-formed group whose headline is row i of rs
GroupRecord(rs, i) ==
    [datetime |-> <<[year |-> 2025, month |-> 4, day |-> 12, hour |-> 15,
                     minute |-> i, second |-> 0]>>,
     competition |-> <<Core("K", i)>>,
     team1 |-> <<Core("A", i + 1)>>,
     team2 |-> <<Core("B", i + 1)>>,
     venue |-> IF i + 2 <= Len(rs) /\ IsGoodVenue(rs[i + 2])
               THEN <<Core("V", i + 2)>> ELSE <<>>,
     details |-> IF rs[i + 1].links # <<>> THEN <<Core("u", i + 1)>> ELSE <<>>]

RECURSIVE GroupRecordsFrom(_, _)
GroupRecordsFrom(rs, i) ==
    IF i > Len(rs) THEN <<>>
    ELSE (IF IsMatchingHead(rs[i]) THEN <<GroupRecord(rs, i)>> ELSE <<>>)
         \o GroupRecordsFrom(rs, i + 1)

\* C1 (as claimed): on a sequence of headline-led groups parse_games returns
\* exactly one record per well-formed group, in source order, each with the
\* fields of its own rows.
C1_OneRecordPerGroup ==
    (ppc = "returned" /\ WellGrouped(rows))
        => pst.games = GroupRecordsFrom(rows, 1)

HasRequiredFields(g) ==
    g.datetime # <<>> /\ g.competition # <<>> /\ g.team1 # <<>> /\ g.team2 # <<>>

\* C2 (as claimed): every record parse_games returns has datetime, competition,
\* team1 and team2.
C2_RecordsComplete ==
    ppc = "returned"
        => \A k \in 1..Len(pst.games) : HasRequiredFields(pst.games[k])

\* the rows of dropped games: an unmatched headline and the rows after it up
\* to the next headline
DroppedRows(rs) ==
    {j \in 1..Len(rs) :
        \E h \in 1..j : /\ IsUnmatchedHead(rs[h])
                        /\ \A k \in (h + 1)..j : ~IsHead(rs[k])}

\* g has a field read from the row with identity j
FromRow(g, j) ==
    \/ g.datetime # <<>> /\ g.datetime[1].minute = j
    \/ g.competition = <<Core("K", j)>>
    \/ g.team1 = <<Core("A", j)>>
    \/ g.team2 = <<Core("B", j)>>
    \/ g.venue = <<Core("V", j)>>
    \/ g.details = <<Core("u", j)>>

\* C3: no record of the output has a field read from an unmatched headline or
\* from a row between it and the next headline.
C3_DroppedRowsDoNotLeak ==
    \A j \in DroppedRows(rows) :
        \A k \in 1..Len(pst.games) : ~FromRow(pst.games[k], j)

\* C3 witness: an unmatched headline with its detail row, then a game whose
\* record is returned.
C3_Witness ==
    /\ ppc = "returned"
    /\ Len(rows) >= 3
    /\ IsUnmatchedHead(rows[1]) /\ IsGoodDetail(rows[2]) /\ IsMatchingHead(rows[3])
    /\ Len(pst.games) = 1
    /\ FromRow(pst.games[1], 3)

(***************************************************************************)
(* Properties of fetch_games and main (Spec).                              *)
(***************************************************************************)
\* the response carries final = true
FinalFlag(resp) == resp.body # <<>> /\ resp.body[1].final

\* the response has a non-200 status or an empty JSON body
FailedResponse(resp) == resp.status # 200 \/ resp.body = <<>>

\* fetch_games has returned its list to main
FetchReturned == pc \in {"write", "done"} \/ writer_calls > 0

\* the concatenation of the parse_games results of the pages of rs
RECURSIVE ConcatParsed(_)
ConcatParsed(rs) ==
    IF rs = <<>> THEN <<>>
    ELSE ParseGames(Head(rs).body[1].html).games \o ConcatParsed(Tail(rs))

\* C4: the requested offsets are 0, 200, 400, ...; no request follows a
\* response whose final flag is true; when fetch_games returns, the number of
\* requests is the index of the first final response.
C4_OffsetsAndStop ==
    /\ \A i \in 1..Len(requests) : requests[i] = 200 * (i - 1)
    /\ Len(responses) = Len(requests)
    /\ \A i \in 1..(Len(responses) - 1) : ~FinalFlag(responses[i])
    /\ FetchReturned =>
        /\ Len(requests) >= 1
        /\ FinalFlag(responses[Len(requests)])
    /\ (Len(responses) >= 1 /\ FinalFlag(responses[Len(responses)])) => pc # "fetch" \/ done

\* C4 witness: fetch_games returns after three requests.
C4_Witness ==
    /\ pc = "write"
    /\ requests = <<0, 200, 400>>
    /\ FinalFlag(responses[3])

\* C5: the list fetch_games returns is the concatenation, in request order, of
\* the parse_games results of all pages, the final one included.
C5_GamesAreConcatenation ==
    FetchReturned => games = ConcatParsed(responses)

\* C5 witness: three pages, the first and the final one each yielding records.
C5_Witness ==
    /\ pc = "write"
    /\ Len(responses) = 3
    /\ Len(ParseGames(responses[1].body[1].html).games) = 2
    /\ Len(ParseGames(responses[3].body[1].html).games) = 1
    /\ Len(games) >= 3

\* C6: a non-200 or empty response is the last one: the run has aborted, no
\* later page was requested, its html was not parsed, no list was returned and
\* the writer was not invoked.
C6_FailedResponseAborts ==
    \A i \in 1..Len(responses) :
        FailedResponse(responses[i]) =>
            /\ i = Len(responses)
            /\ Len(requests) = i
            /\ pc = "aborted"
            /\ games = ConcatParsed(SubSeq(responses, 1, i - 1))
            /\ writer_calls = 0
            /\ out = NoOutput

\* C6 witness: the second response has status 500 and carries html with a game,
\* after a first page that yielded records.
C6_Witness ==
    /\ Len(responses) = 2
    /\ responses[2].status = 500
    /\ responses[2].body # <<>>
    /\ games # <<>>
    /\ pc = "aborted"

\* the calendar text runs from the open line to the close line
WholeCalendar(cal) ==
    /\ Len(cal) >= 3
    /\ cal[1] = <<"BEGIN:VCALENDAR">>
    /\ cal[Len(cal)] = <<"END:VCALENDAR">>
    /\ Cardinality({k \in 1..Len(cal) : cal[k] = <<"END:VEVENT">>}) = Len(games)

\* C7: write_ical is invoked at most once, only after fetch_teamname succeeded
\* and fetch_games returned the complete list; an aborted run has written no
\* calendar text; a run that writes writes the whole calendar in one step.
C7_NoPartialOutput ==
    /\ writer_calls <= 1
    /\ writer_calls = 1 =>
        /\ team_name # <<>>
        /\ responses # <<>>
        /\ FinalFlag(responses[Len(responses)])
        /\ \A i \in 1..Len(responses) : ~FailedResponse(responses[i])
        /\ games = ConcatParsed(responses)
    /\ pc = "aborted" => out.writes = <<>>
    /\ out.writes # <<>> => writer_calls = 1 /\ pc = "done"
    /\ Len(out.writes) <= 1
    /\ \A k \in 1..Len(out.writes) : WholeCalendar(out.writes[k])

\* C7 witness: a run that wrote the calendar of two games to the output file.
C7_Witness ==
    /\ pc = "done"
    /\ out.dest = "file"
    /\ Len(out.writes) = 1
    /\ Len(games) = 2

\* a run that opened the output file and aborted inside write_ical
AbortsInWriter == pc = "aborted" /\ writer_calls = 1 /\ out.opened

(***************************************************************************)
(* Properties of write_ical (SpecIcal, SpecDate).                          *)
(***************************************************************************)
\* the calendar text the run wrote
Calendar == out.writes[1]

\* the k-th line (1..8) of the event block of game i
EventLine(i, k) == Calendar[2 + 8 * (i - 1) + k]

CountLines(cal, line) == Cardinality({k \in 1..Len(cal) : cal[k] = line})

\* C8: the calendar is one BEGIN:VCALENDAR line, the calendar-name line with
\* the team name, one VEVENT block per game in the order of the list, the i-th
\* built from the i-th record, and one END:VCALENDAR line; no block for an
\* empty list.
C8_CalendarStructure ==
    pc = "done" =>
        /\ Len(out.writes) = 1
        /\ Len(Calendar) = 3 + 8 * Len(games)
        /\ Calendar[1] = <<"BEGIN:VCALENDAR">>
        /\ Calendar[2] = <<"X-WR-CALNAME:">> \o team_name[1] \o <<" ", "Spielplan">>
        /\ Calendar[Len(Calendar)] = <<"END:VCALENDAR">>
        /\ CountLines(Calendar, <<"BEGIN:VCALENDAR">>) = 1
        /\ CountLines(Calendar, <<"END:VCALENDAR">>) = 1
        /\ CountLines(Calendar, <<"BEGIN:VEVENT">>) = Len(games)
        /\ CountLines(Calendar, <<"END:VEVENT">>) = Len(games)
        /\ \A i \in 1..Len(games) :
            /\ EventLine(i, 1) = <<"BEGIN:VEVENT">>
            /\ Head(EventLine(i, 2)) = "DTSTART:"
            /\ Head(EventLine(i, 3)) = "DTEND:"
            /\ EventLine(i, 4) = <<"SUMMARY:">> \o games[i].team1[1]
                                     \o <<" ", "-", " ">> \o games[i].team2[1]
            /\ Head(EventLine(i, 5)) = "LOCATION:"
            /\ Head(EventLine(i, 6)) = "DESCRIPTION:"
            /\ EventLine(i, 7) = <<"URL:">> \o (IF games[i].details = <<>> THEN <<>>
                                                ELSE games[i].details[1])
            /\ EventLine(i, 8) = <<"END:VEVENT">>

\* C8 witness: three different games written, the second without a venue.
C8_Witness ==
    /\ pc = "done"
    /\ Len(games) = 3
    /\ games[1].venue # <<>> /\ games[2].venue = <<>> /\ games[3].details # <<>>
    /\ EventLine(3, 4) = <<"SUMMARY:", "A", "0", "3", " ", "-", " ", "B", "0", "3">>

D2(n) == <<Chr(n \div 10), Chr(n % 10)>>

D4(n) == <<Chr(n \div 1000), Chr((n \div 100) % 10), Chr((n \div 10) % 10), Chr(n % 10)>>

MonthLength(y, m) ==
    IF m = 2 /\ y % 4 = 0 /\ (y % 100 # 0 \/ y % 400 = 0) THEN 29
    ELSE <<31, 28, 31, 30, 31, 30, 31, 31, 30, 31, 30, 31>>[m]

\* YYYYMMDDTHHMMSS of the headline date d
StampOf(d) ==
    D4(d.YYYY) \o D2(d.MM) \o D2(d.DD) \o <<"T">> \o D2(d.HH) \o D2(d.MI) \o <<"0", "0">>

\* the headline date d moved 105 minutes on, by carrying
EndOf(d) ==
    LET mi == d.MI + 45
        hh == d.HH + 1 + (IF mi >= 60 THEN 1 ELSE 0)
        nextDay == hh >= 24
        lastOfMonth == d.DD = MonthLength(d.YYYY, d.MM)
    IN [d EXCEPT !.MI = mi % 60,
                 !.HH = hh % 24,
                 !.DD = IF ~nextDay THEN @ ELSE IF lastOfMonth THEN 1 ELSE @ + 1,
                 !.MM = IF nextDay /\ lastOfMonth THEN (IF @ = 12 THEN 1 ELSE @ + 1) ELSE @,
                 !.YYYY = IF nextDay /\ lastOfMonth /\ d.MM = 12 THEN @ + 1 ELSE @]

\* the date text of the headline of the page
HeadlineDate == responses[1].body[1].html[1].text.date[1]

\* C9: DTSTART is the headline's date and time and DTEND is 105 minutes later,
\* both as YYYYMMDDTHHMMSS, carried into the hour, day, month and year; the
\* game of 12.04.2025 15:00 gets 20250412T150000 and 20250412T164500.
C9_StartAndEnd ==
    pc = "done" =>
        /\ EventLine(1, 2) = <<"DTSTART:">> \o StampOf(HeadlineDate)
        /\ EventLine(1, 3) = <<"DTEND:">> \o StampOf(EndOf(HeadlineDate))
        /\ Len(EventLine(1, 2)) = 16 /\ Len(EventLine(1, 3)) = 16
        /\ HeadlineDate = DateText(12, ".", 4, ".", 2025, 15, 0) =>
            /\ EventLine(1, 2) = <<"DTSTART:", "2", "0", "2", "5", "0", "4", "1", "2",
                                   "T", "1", "5", "0", "0", "0", "0">>
            /\ EventLine(1, 3) = <<"DTEND:", "2", "0", "2", "5", "0", "4", "1", "2",
                                   "T", "1", "6", "4", "5", "0", "0">>

\* C9 witness: a game on 31.12.2024 at 23:15 ends in the next year.
C9_Witness ==
    /\ pc = "done"
    /\ HeadlineDate = DateText(31, ".", 12, ".", 2024, 23, 15)
    /\ EventLine(1, 3) = <<"DTEND:", "2", "0", "2", "5", "0", "1", "0", "1",
                           "T", "0", "1", "0", "0", "0", "0">>

\* the text with every backslash that stands right before a comma removed
RECURSIVE Unescaped(_)
Unescaped(s) ==
    IF s = <<>> THEN <<>>
    ELSE IF Len(s) >= 2 /\ s[1] = "\\" /\ s[2] = ","
         THEN <<",">> \o Unescaped(SubSeq(s, 3, Len(s)))
         ELSE <<Head(s)>> \o Unescaped(Tail(s))

Commas(s) == Cardinality({k \in 1..Len(s) : s[k] = ","})

\* e is t with every comma written as backslash-comma and nothing else changed
EscapedAs(e, t) ==
    /\ \A k \in 1..Len(e) : e[k] = "," => (k > 1 /\ e[k - 1] = "\\")
    /\ Len(e) = Len(t) + Commas(t)
    /\ Unescaped(e) = t

\* C10: LOCATION and DESCRIPTION hold the venue and the competition with every
\* comma as backslash-comma and no other change; SUMMARY, URL and the
\* calendar-name line hold their texts unchanged.
C10_CommasEscaped ==
    pc = "done" =>
        /\ Calendar[2] = <<"X-WR-CALNAME:">> \o team_name[1] \o <<" ", "Spielplan">>
        /\ \A i \in 1..Len(games) :
            /\ Head(EventLine(i, 5)) = "LOCATION:"
            /\ EscapedAs(Tail(EventLine(i, 5)),
                         IF games[i].venue = <<>> THEN <<>> ELSE games[i].venue[1])
            /\ Head(EventLine(i, 6)) = "DESCRIPTION:"
            /\ EscapedAs(Tail(EventLine(i, 6)), games[i].competition[1])
            /\ EventLine(i, 4) = <<"SUMMARY:">> \o games[i].team1[1]
                                     \o <<" ", "-", " ">> \o games[i].team2[1]
            /\ EventLine(i, 7) = <<"URL:">> \o (IF games[i].details = <<>> THEN <<>>
                                                ELSE games[i].details[1])

\* C10 witness: commas in the venue, the competition, a team name, the details
\* link and the team name of the calendar.
C10_Witness ==
    /\ pc = "done"
    /\ Len(games) = 1
    /\ games[1].venue = <<<<"\\", ",">>>>
    /\ games[1].competition = <<<<",", ",">>>>
    /\ games[1].team1 = <<<<"A", ",", "C">>>>
    /\ games[1].details = <<<<"u", ",", "v">>>>
    /\ team_name = <<<<"T", ",", "V">>>>
    /\ EventLine(1, 5) = <<"LOCATION:", "\\", "\\", ",">>
    /\ EventLine(1, 6) = <<"DESCRIPTION:", "\\", ",", "\\", ",">>

(***************************************************************************)
(* Properties of the whole path from a page to the calendar (SpecPage).    *)
(***************************************************************************)
\* the rows of the page that was fetched
Page == responses[1].body[1].html

\* how many matching headlines the rows 1..i of rs hold
MatchingHeadsUpTo(rs, i) == Cardinality({h \in 1..i : IsMatchingHead(rs[h])})

\* the group of the headline at row i of rs has a venue row
GroupHasVenue(rs, i) == i + 2 <= Len(rs) /\ IsGoodVenue(rs[i + 2])

\* the run has written a calendar whose k-th event is the game of the group
\* whose headline is row i of the page
EventOfGroup(k, i) ==
    /\ pc = "done"
    /\ Len(games) >= k
    /\ EventLine(k, 4) = <<"SUMMARY:">> \o Core("A", i + 1)
                             \o <<" ", "-", " ">> \o Core("B", i + 1)

\* C11 (as claimed): a well-formed group without a venue row yields an event
\* with an empty LOCATION, one without a details link an event with an empty
\* URL; the record is returned and write_ical completes.
C11_EmptyLocationAndUrl ==
    (writer_calls = 1 /\ WellGrouped(Page)) =>
        \A i \in 1..Len(Page) :
            IsMatchingHead(Page[i]) =>
                LET k == MatchingHeadsUpTo(Page, i) IN
                /\ ~GroupHasVenue(Page, i) =>
                    EventOfGroup(k, i) /\ EventLine(k, 5) = <<"LOCATION:">>
                /\ Page[i + 1].links = <<>> =>
                    EventOfGroup(k, i) /\ EventLine(k, 7) = <<"URL:">>

\* the same on pages without an unmatched headline
C11_WithoutUnmatchedHeadline ==
    (\A i \in 1..Len(responses) : \A j \in 1..Len(Page) : ~IsUnmatchedHead(Page[j]))
        => C11_EmptyLocationAndUrl

(***************************************************************************)
(* Properties of the assembler's state (SpecParse).                        *)
(***************************************************************************)
\* the row processed last
LastRow == rows[Len(rows)]

\* C12 (as claimed): right after a headline row has been processed, skip_game
\* is true exactly when that headline did not match the pattern.
C12_SkipIffUnmatched ==
    (ppc = "loop" /\ rows # <<>> /\ IsHead(LastRow))
        => (pst.skip_game <=> ~ReSearch(LastRow.text))

\* C13 (as claimed): no step appends a record while skip_game is set.
C13_NoAppendWhileSkipping ==
    [][Len(pst'.games) > Len(pst.games) => ~pst.skip_game]_vars

\* C14 (as claimed): no headline row makes parse_games raise.
C14_HeadlineNeverRaises ==
    (rows # <<>> /\ IsHead(LastRow)) => ppc # "raised"

\* a detail row with fewer than two club names, or a venue row without its cell
IsBrokenRow(r) ==
    /\ ~IsHead(r)
    /\ \/ r.classes \in {<<>>, <<"odd">>} /\ Len(r.clubs) < 2
       \/ /\ r.classes \notin {<<>>, <<"odd">>}
          /\ InClasses("row-venue", r.classes) /\ Len(r.cells) < 1

\* the last headline before row i of rs is a matching one
FollowsMatchingHead(rs, i) ==
    \E h \in 1..(i - 1) :
        /\ IsMatchingHead(rs[h])
        /\ \A k \in (h + 1)..(i - 1) : ~IsHead(rs[k])

\* C15 (as claimed): a broken detail or venue row after a matching headline
\* makes parse_games raise at that row, whatever came before the headline.
C15_BrokenRowRaises ==
    (rows # <<>> /\ IsBrokenRow(LastRow) /\ FollowsMatchingHead(rows, Len(rows)))
        => ppc = "raised"

\* the same when no unmatched headline came before
C15_WithoutUnmatchedHeadline ==
    (\A j \in 1..Len(rows) : ~IsUnmatchedHead(rows[j])) => C15_BrokenRowRaises

MatchingHeads(rs) == {h \in 1..Len(rs) : IsMatchingHead(rs[h])}

\* C16 (as claimed): parse_games returns at most one record per matching
\* headline, each with the datetime of a matching headline of its own.
C16_RecordsComeFromHeadlines ==
    ppc = "returned" =>
        /\ Len(pst.games) <= Cardinality(MatchingHeads(rows))
        /\ \A k \in 1..Len(pst.games) :
            /\ pst.games[k].datetime # <<>>
            /\ pst.games[k].datetime[1].minute \in MatchingHeads(rows)
        /\ \A k, l \in 1..Len(pst.games) :
            k # l => pst.games[k].datetime # pst.games[l].datetime

\* s is a prefix of t
IsPrefix(s, t) == Len(s) <= Len(t) /\ SubSeq(t, 1, Len(s)) = s

\* C17: no step of parse_games changes a record already in games or its
\* position; games only grows at its end.
C17_FinalizedRecordsKept ==
    [][IsPrefix(pst.games, pst'.games)]_vars

\* C17 witness: a record was finalized and the rows of the next game were
\* processed after it.
C17_Witness ==
    /\ ppc = "loop"
    /\ Len(rows) = 4
    /\ IsMatchingHead(rows[1]) /\ IsGoodDetail(rows[2])
    /\ IsMatchingHead(rows[3]) /\ IsGoodDetail(rows[4])
    /\ pst.games = <<GroupRecord(rows, 1)>>
    /\ pst.current_game = GroupRecord(rows, 3)

(***************************************************************************)
(* Properties of the pages of one run (Spec).                              *)
(***************************************************************************)
Val(c) == CHOOSE n \in 0..9 : Chr(n) = c

\* the identity a row text carries
IdOfText(t) == 10 * Val(t[2]) + Val(t[3])

\* the identities of the rows the fields of g were read from
FieldIds(g) ==
    (IF g.datetime # <<>> THEN {g.datetime[1].minute} ELSE {})
    \cup {IdOfText(f[1]) : f \in {x \in {g.competition, g.team1, g.team2, g.venue,
                                         g.details} : x # <<>>}}

\* the pages they belong to
PagesOf(g) == {id \div 10 : id \in FieldIds(g)}

RECURSIVE RecordsOfPage(_, _)
RecordsOfPage(gs, n) ==
    IF gs = <<>> THEN <<>>
    ELSE (IF PagesOf(Head(gs)) = {n} THEN <<Head(gs)>> ELSE <<>>)
         \o RecordsOfPage(Tail(gs), n)

\* the n-th response was taken into games
PageProcessed(n) ==
    /\ ~FailedResponse(responses[n])
    /\ ~ParseGames(responses[n].body[1].html).raised

\* C18: every record of games has its fields from the rows of one page only,
\* and the records of page n are those parse_games yields for the rows of page
\* n alone, whatever the earlier pages ended with.
C18_AssemblerStatePerPage ==
    /\ \A k \in 1..Len(games) : Cardinality(PagesOf(games[k])) = 1
    /\ \A n \in 1..Len(responses) :
        RecordsOfPage(games, n) =
            IF PageProcessed(n) THEN ParseGames(responses[n].body[1].html).games
            ELSE <<>>

\* C18 witness: page 1 ends after an unmatched headline, page 2 ends with an
\* unfinished record, and page 3 starts with a detail row.
C18_Witness ==
    /\ pc = "write"
    /\ Len(responses) = 3
    /\ responses[1].body[1].html = <<HeadNoDate(11), DetailLink(12)>>
    /\ responses[2].body[1].html = <<HeadOk(21)>>
    /\ responses[3].body[1].html = <<DetailLink(31)>>
    /\ Len(games) = 2
    /\ PagesOf(games[1]) = {2} /\ PagesOf(games[2]) = {3}

\* C19 (as claimed): a run that has opened (truncated) the output file has
\* written the complete calendar to it.
C19_OpenedFileGetsCalendar ==
    out.opened => (Len(out.writes) = 1 /\ WholeCalendar(out.writes[1]))

====
